---- MODULE Spec2Model ----
(***************************************************************************)
(* modulo-n-tools: the plain modular helpers of src/lib.rs and the three   *)
(* Montgomery engines of src/montgomery.rs (Montgomery32, Montgomery64,    *)
(* Montgomery<T>), as one state machine.  A state is one call in progress  *)
(* or finished on one (possibly not yet built) Montgomery context.         *)
(*                                                                         *)
(* The fixed-width engines are the same code at two word widths.  TLC's    *)
(* integers are 32 bits wide, so the word widths 32 and 64 are scaled to   *)
(* W32 and W64 bits: R = 2^w, the double-width container is 2^(2w), and    *)
(* every wrapping operation wraps at 2^w as in the source.  The 64-bit      *)
(* chunk of bits() is scaled the same way, to ChunkBits bits, so that the  *)
(* moduli of the model go through both of its loops.                       *)
(***************************************************************************)
EXTENDS Integers, Sequences, FiniteSets

\* ------------------------------------------------------------- bounds
\* word width standing for u32 (container: 2*W32 bits standing for u64)
W32 == 5
\* word width standing for u64 (container: 2*W64 bits standing for u128)
W64 == 7
\* largest modulus given to the arbitrary-width engine
MaxN == 71
\* largest exponent given to powmod
MaxExp == 5
\* largest target width s given to a direct call of calc_n_prime (fixed)
MaxSFixed == 25
\* largest target width s given to a direct call of calc_n_prime (generic)
MaxS == 9
\* largest modulus given to the plain helpers of lib.rs
MaxM == 11

\* the chunk width of the first loop of bits, standing for the 64 of
\* c64 = 1 << 64, n >>= 64, b += 64
ChunkBits == 4

VARIABLES
    variant,  \* which engine the call is on: "Montgomery32", "Montgomery64",
              \* "Montgomery" (generic) or "lib" (free functions); "none" at start
    checks,   \* TRUE: the build has overflow checks (debug), FALSE: it wraps (release)
    n, np, r2, s, rm,  \* the fields of the context (s, rm: generic engine only)
    pc,       \* "idle", "calc" (in calc_n_prime's loop), "ready" (context built),
              \* "loop" (in powmod's loop), "done", "panic"
    op,       \* the function called last
    arg,      \* its arguments, as a tuple
    cn, cs, cx, cb, ck,  \* calc_n_prime: parameters n, s; locals x, b; steps done
    p, x, y,  \* powmod: the locals p, x, y
    loc,      \* reduction: its intermediate values (history)
    ret,      \* the value returned
    ovf       \* history: an addition in reduction exceeded the container

vars == <<variant, checks, n, np, r2, s, rm, pc, op, arg, cn, cs, cx, cb, ck,
          p, x, y, loc, ret, ovf>>

ctxVars == <<n, np, r2, s, rm>>
calcVars == <<cn, cs, cx, cb, ck>>
powVars == <<p, x, y>>

Fixed == {"Montgomery32", "Montgomery64"}
Generic == "Montgomery"

\* ---------------------------------------------------- integer helpers
Pow2(k) == 2 ^ k

Min(i, j) == IF i <= j THEN i ELSE j

\* x >> k on a non-negative integer
RECURSIVE Shr(_, _)
Shr(v, k) == IF k = 0 \/ v = 0 THEN v ELSE Shr(v \div 2, k - 1)

\* x << k
Shl(v, k) == v * Pow2(k)

\* a & b on non-negative integers
RECURSIVE BitAnd(_, _)
BitAnd(u, v) ==
    IF u = 0 \/ v = 0 THEN 0
    ELSE (u % 2) * (v % 2) + 2 * BitAnd(u \div 2, v \div 2)

\* (-v) & mask for v >= 0 and mask = 2^k - 1 >= 0, on a two's-complement
\* big integer: the low bits of -v are those of (-v) mod (mask + 1)
NegAnd(v, mask) == BitAnd((-v) % (mask + 1), mask)

\* Rust's % on signed integers: the remainder has the sign of the dividend
Rem(u, m) == IF u >= 0 THEN u % m ELSE -((-u) % m)

\* the word width of a fixed engine
Width(v) == IF v = "Montgomery32" THEN W32 ELSE W64

\* wrapping_mul / wrapping_add at the word width of engine v
WrappingMul(v, u, t) == (u * t) % Pow2(Width(v))
WrappingAdd(v, u, t) == (u + t) % Pow2(Width(v))

OddUpTo(k) == {i \in 1..k : i % 2 = 1}

\* -------------------------------------------------------------- lib.rs
\* mutant of reduce: the branch for a <= -modulo is forgotten
reduce_NoNegBranch(a, modulo) == IF a >= modulo THEN a - modulo ELSE a

\* reduce: one corrective step
reduce(a, modulo) ==
    IF a >= modulo THEN a - modulo
    ELSE IF a <= -modulo THEN a + modulo
    ELSE a

add_mod(a, b, modulo) == reduce(a + b, modulo)

sub_mod(a, b, modulo) == reduce(a - b, modulo)

\* mutant of mul_mod: a floored remainder in place of the truncated one
mul_mod_Floored(a, b, modulo) == (a * b) % modulo

\* mul_mod: the native remainder of the product
mul_mod(a, b, modulo) == Rem(a * b, modulo)

\* the loop with x squared before y is multiplied by it
RECURSIVE pow_loop_SquareFirst(_, _, _, _)
pow_loop_SquareFirst(xx, yy, b, modulo) ==
    IF b > 0
    THEN pow_loop_SquareFirst(mul_mod(xx, xx, modulo),
                  IF BitAnd(b, 1) # 0
                  THEN mul_mod(mul_mod(xx, xx, modulo), yy, modulo) ELSE yy,
                  Shr(b, 1), modulo)
    ELSE yy

\* the loop shared by pow_mod and mul_pow_mod: while b > 0, multiply y by x
\* when the low bit of b is set, square x, shift b
RECURSIVE pow_loop(_, _, _, _)
pow_loop(xx, yy, b, modulo) ==
    IF b > 0
    THEN pow_loop(mul_mod(xx, xx, modulo),
                  IF BitAnd(b, 1) # 0 THEN mul_mod(xx, yy, modulo) ELSE yy,
                  Shr(b, 1), modulo)
    ELSE yy

\* mutant of pow_mod: its loop squares x before multiplying y by it
pow_mod_SquareFirst(a, b, modulo) == pow_loop_SquareFirst(a, 1, b, modulo)

\* pow_mod: x = a, y = 1
pow_mod(a, b, modulo) == pow_loop(a, 1, b, modulo)

\* mul_pow_mod: x = base, y = a
mul_pow_mod(a, base, power, modulo) == pow_loop(base, a, power, modulo)

\* tests/test.rs: trial division by the odd numbers from i on
RECURSIVE is_prime_from(_, _)
is_prime_from(k, i) ==
    IF i * i <= k
    THEN IF k % i = 0 THEN FALSE ELSE is_prime_from(k, i + 2)
    ELSE TRUE

\* tests/test.rs: is_prime
is_prime(k) ==
    IF k = 2 THEN TRUE
    ELSE IF k < 2 \/ k % 2 = 0 THEN FALSE
    ELSE is_prime_from(k, 3)

\* ------------------------------------------------ montgomery.rs: bits
\* the second loop of bits: one bit at a time until n is zero
RECURSIVE bits_tail(_, _)
bits_tail(v, b) == IF v > 0 THEN bits_tail(Shr(v, 1), b + 1) ELSE b

\* the first loop of bits: a chunk at a time while n > c64 = 1 << chunk
RECURSIVE bits_chunks(_, _)
bits_chunks(v, b) ==
    IF v > Shl(1, ChunkBits)
    THEN bits_chunks(Shr(v, ChunkBits), b + ChunkBits)
    ELSE bits_tail(v, b)

bits(v) == bits_chunks(v, 0)

\* ---------------------------------------- montgomery.rs: calc_n_prime
\* mutant of CalcSeed: the negation is forgotten, the seed is n mod 8
CalcSeed_NoNeg(v, nn) == nn % 8

\* the 3-bit seed: (!n + 1) % 8 on a word, (-n) & 7 on a big integer
CalcSeed(v, nn) ==
    IF v \in Fixed
    THEN ((Pow2(Width(v)) - 1 - nn) + 1) % 8
    ELSE NegAnd(nn, 7)

\* the mask rm = (1 << s) - 1
Mask(ss) == Shl(1, ss) - 1

\* mutant of CalcIter: the step adds 1 where the code adds 2
CalcIter_PlusOne(v, nn, xx, ss) ==
    IF v \in Fixed
    THEN WrappingMul(v, WrappingAdd(v, WrappingMul(v, nn, xx), 1), xx)
    ELSE BitAnd(((xx * nn) + 1) * xx, Mask(ss))

\* one doubling step, nx = (n*x + 2)*x: wrapping on a word, masked with rm
\* on a big integer
CalcIter(v, nn, xx, ss) ==
    IF v \in Fixed
    THEN WrappingMul(v, WrappingAdd(v, WrappingMul(v, nn, xx), 2), xx)
    ELSE BitAnd(((xx * nn) + 2) * xx, Mask(ss))

\* ------------------------------------------------- montgomery.rs: new
\* mutant of R2Fixed: the + 1 is forgotten
R2Fixed_NoInc(v, nn) == (Pow2(2 * Width(v)) - 1) % nn

\* r2 of the fixed engines: (MAX % n) + 1 with MAX = 2^(2w) - 1
R2Fixed(v, nn) == ((Pow2(2 * Width(v)) - 1) % nn) + 1

\* r2 of the generic engine: (1 << 2s) % n
R2Generic(nn, ss) == Rem(Shl(1, 2 * ss), nn)

\* ------------------------------------------- montgomery.rs: reduction
\* reduction of the fixed engines on the context in the state.  t: the
\* word t after wrapping_mul, sum: x + n*t, over: the sum does not fit the
\* container, u: the container's value shifted down, r: the result
ReductionFixed(v, xx) ==
    LET w    == Width(v)
        t0   == xx % Pow2(w)
        t    == WrappingMul(v, t0, np)
        sum  == xx + n * t
        kept == sum % Pow2(2 * w)
        u    == Shr(kept, w)
    IN [t |-> t, sum |-> sum, over |-> sum >= Pow2(2 * w), u |-> u,
        r |-> IF u >= n THEN u - n ELSE u]

\* reduction of the generic engine on the context in the state
ReductionGeneric(xx) ==
    LET t0  == BitAnd(xx, rm)
        t1  == t0 * np
        t   == BitAnd(t1, rm)
        sum == t * n + xx
        u   == Shr(sum, s)
    IN [t |-> t, sum |-> sum, over |-> FALSE, u |-> u,
        r |-> IF u >= n THEN u - n ELSE u]

\* mutant of reduction: the conditional subtraction is forgotten
reduction_NoSub(xx) ==
    LET red == IF variant \in Fixed THEN ReductionFixed(variant, xx)
               ELSE ReductionGeneric(xx)
    IN [red EXCEPT !.r = red.u]

reduction(xx) ==
    IF variant \in Fixed THEN ReductionFixed(variant, xx) ELSE ReductionGeneric(xx)

\* mutant of convert: the factor r2 is forgotten
convert_NoR2(xx) == reduction(xx)

\* convert: one reduction of x * r2
convert(xx) == reduction(xx * r2)

\* ------------------------------------------------------------- states
NoLoc == [t |-> 0, sum |-> 0, over |-> FALSE, u |-> 0, r |-> 0]

Init ==
    /\ variant = "none"
    /\ checks \in BOOLEAN
    /\ n = 0 /\ np = 0 /\ r2 = 0 /\ s = 0 /\ rm = 0
    /\ pc = "idle"
    /\ op = "none"
    /\ arg = <<>>
    /\ cn = 0 /\ cs = 0 /\ cx = 0 /\ cb = 0 /\ ck = 0
    /\ p = 0 /\ x = 0 /\ y = 0
    /\ loc = NoLoc
    /\ ret = 0
    /\ ovf = FALSE

\* Montgomery32::new(nn) / Montgomery64::new(nn), up to the entry of
\* calc_n_prime's loop
NewFixed ==
    /\ pc = "idle"
    /\ \E v \in Fixed : \E nn \in OddUpTo(Pow2(Width(v)) - 1) :
           /\ variant' = v
           /\ op' = "new"
           /\ arg' = <<nn>>
           /\ n' = nn
           /\ r2' = R2Fixed(v, nn)
           /\ cn' = nn /\ cs' = Width(v)
           /\ cx' = CalcSeed(v, nn) /\ cb' = 3 /\ ck' = 0
           /\ pc' = "calc"
           /\ UNCHANGED <<checks, np, s, rm, p, x, y, loc, ret, ovf>>

\* Montgomery::<T>::new(nn), up to the entry of calc_n_prime's loop
NewGeneric ==
    /\ pc = "idle"
    /\ \E nn \in OddUpTo(MaxN) :
           /\ variant' = Generic
           /\ op' = "new"
           /\ arg' = <<nn>>
           /\ n' = nn
           /\ s' = bits(nn)
           /\ rm' = Mask(bits(nn))
           /\ r2' = R2Generic(nn, bits(nn))
           /\ cn' = nn /\ cs' = bits(nn)
           /\ cx' = CalcSeed(Generic, nn) /\ cb' = 3 /\ ck' = 0
           /\ pc' = "calc"
           /\ UNCHANGED <<checks, np, p, x, y, loc, ret, ovf>>

\* a direct call calc_n_prime(&nn, ss) of the trait function
CalcCall ==
    /\ pc = "idle"
    /\ \E v \in Fixed \cup {Generic} :
              \E nn \in (IF v \in Fixed THEN OddUpTo(Pow2(Width(v)) - 1) ELSE OddUpTo(MaxN)) :
              \E ss \in 0..(IF v \in Fixed THEN MaxSFixed ELSE MaxS) :
           /\ variant' = v
           /\ op' = "calc_n_prime"
           /\ arg' = <<nn, ss>>
           /\ cn' = nn /\ cs' = ss
           /\ cx' = CalcSeed(v, nn) /\ cb' = 3 /\ ck' = 0
           /\ pc' = "calc"
           /\ UNCHANGED <<checks, ctxVars, p, x, y, loc, ret, ovf>>

\* one iteration of calc_n_prime's loop; on return the value goes to the
\* caller: field np of the context being built, or the direct caller
CalcStep ==
    /\ pc = "calc"
    /\ LET nx == CalcIter(variant, cn, cx, cs)
           b2 == cb * 2
       IN /\ cb' = b2
          /\ ck' = ck + 1
          /\ IF b2 >= cs
             THEN /\ ret' = IF op = "new" THEN ret ELSE nx
                  /\ np' = IF op = "new" THEN nx ELSE np
                  /\ pc' = IF op = "new" THEN "ready" ELSE "done"
                  /\ cx' = cx
             ELSE /\ cx' = nx
                  /\ UNCHANGED <<ret, np, pc>>
    /\ UNCHANGED <<variant, checks, n, r2, s, rm, op, arg, cn, cs, p, x, y, loc, ovf>>

\* the states the constructors and calc_n_prime go through
NextCtor ==
    \/ NewFixed
    \/ NewGeneric
    \/ CalcCall
    \/ CalcStep

\* ------------------------------------------ properties: constructors
\* the Montgomery radix R of the context in the state
Radix == IF variant \in Fixed THEN Pow2(Width(variant)) ELSE Pow2(s)

\* the context is built
Built == op = "new" /\ pc = "ready"

\* C4: after each of the three constructors, for every odd N, the stored np
\* satisfies N * np = -1 (mod R) and 0 <= np < R
C4_NPrime ==
    Built => /\ (n * np + 1) % Radix = 0
             /\ 0 <= np /\ np < Radix

\* C4 witness: the constructor of the wider fixed engine has returned after
\* two doubling steps
C4_Witness ==
    /\ Built /\ variant = "Montgomery64" /\ n = 57 /\ ck = 2
    /\ np > 1 /\ (57 * np + 1) % Pow2(W64) = 0

\* C5 as stated: r2 is the canonical residue R^2 mod N, 0 <= r2 < N
C5_Original ==
    Built => /\ r2 = (Radix * Radix) % n
             /\ 0 <= r2 /\ r2 < n

\* C5 amended: r2 = R^2 (mod N) always; the generic constructor stores the
\* canonical residue in [0, N); the fixed-width constructors store a value in
\* [1, N], which is the canonical residue whenever N > 1 and is 1 for N = 1
C5_R2 ==
    Built => /\ (r2 - Radix * Radix) % n = 0
             /\ variant = Generic => r2 = (Radix * Radix) % n /\ 0 <= r2 /\ r2 < n
             /\ variant \in Fixed =>
                   /\ 1 <= r2 /\ r2 <= n
                   /\ n > 1 => r2 = (Radix * Radix) % n
                   /\ n = 1 => r2 = 1

\* C5 witness: a fixed-width constructor has stored r2 for a modulus above 1
C5_Witness ==
    Built /\ variant = "Montgomery64" /\ n = 57 /\ r2 = (Radix * Radix) % 57 /\ r2 > 1

\* the width the doubling steps are exact to: the word width of a fixed
\* engine, the target width s of the generic one
CalcWidth == IF variant \in Fixed THEN Width(variant) ELSE cs

\* the value calc_n_prime handed back
CalcResult == IF op = "new" THEN np ELSE ret

\* calc_n_prime has returned
CalcReturned == op \in {"new", "calc_n_prime"} /\ pc \in {"ready", "done"}

\* C9: loop invariant of calc_n_prime for odd N: the seed is exact to 3 bits,
\* after the k-th doubling step N*x = -1 (mod 2^min(3*2^k, W)); the loop
\* returns at the first step k >= 1 with 3*2^k >= S (k counts the doubling
\* steps, of which the loop always takes one); for S <= W the result NP has
\* N*NP = -1 (mod 2^S), and 0 <= NP < 2^S in the generic variant
C9_LoopInvariant ==
    /\ pc = "calc" =>
          /\ cb = 3 * Pow2(ck)
          /\ (cn * cx + 1) % Pow2(Min(cb, CalcWidth)) = 0
          /\ ck = 0 => cx = (-cn) % 8
          /\ ck > 0 => cb < cs
    /\ CalcReturned =>
          /\ cb = 3 * Pow2(ck)
          /\ ck >= 1
          /\ cb >= cs
          /\ ck > 1 => 3 * Pow2(ck - 1) < cs
          /\ (cn * CalcResult + 1) % Pow2(Min(cb, CalcWidth)) = 0
          /\ cs <= CalcWidth => (cn * CalcResult + 1) % Pow2(cs) = 0
          /\ variant = Generic => 0 <= CalcResult /\ CalcResult < Pow2(cs)

\* C9 witness: a direct call on the generic engine has returned after two
\* doubling steps with the inverse exact to the 9 bits asked for
C9_Witness ==
    /\ CalcReturned /\ op = "calc_n_prime" /\ variant = Generic
    /\ ck = 2 /\ cs = 9 /\ cn = 13 /\ (13 * ret + 1) % 512 = 0

SpecCtor == Init /\ [][NextCtor]_vars

\* ----------------------------------- montgomery.rs: calls on a context
\* reduction(xx) called directly on the generic context
ReductionCall ==
    /\ pc = "ready" /\ variant = Generic
    /\ \E xx \in 0..(n * Pow2(s) - 1) :
           /\ op' = "reduction"
           /\ arg' = <<xx>>
           /\ LET red == reduction(xx)
              IN loc' = red /\ ret' = red.r
           /\ pc' = "done"
           /\ UNCHANGED <<variant, checks, ctxVars, calcVars, powVars, ovf>>

\* convert(xx) called directly: the addition in its reduction panics in a
\* build with overflow checks and wraps in one without
ConvertCall ==
    /\ pc = "ready"
    /\ \E xx \in 0..(n - 1) :
           /\ op' = "convert"
           /\ arg' = <<xx>>
           /\ LET c == convert(xx)
              IN /\ loc' = c
                 /\ ovf' = c.over
                 /\ IF c.over /\ checks
                    THEN pc' = "panic" /\ ret' = ret
                    ELSE pc' = "done" /\ ret' = c.r
           /\ UNCHANGED <<variant, checks, ctxVars, calcVars, powVars>>

\* the caller hands the Montgomery form convert returned to reduction
RoundTrip ==
    /\ pc = "done" /\ op = "convert" /\ variant = Generic
    /\ op' = "convert_reduction"
    /\ LET red == reduction(ret)
       IN loc' = red /\ ret' = red.r
    /\ UNCHANGED <<variant, checks, ctxVars, calcVars, powVars, pc, arg, ovf>>

\* powmod(aa, pp) up to the entry of its loop: x = convert(a), y = convert(1)
PowmodStart ==
    /\ pc = "ready"
    /\ \E aa \in 0..(n - 1) : \E pp \in 0..MaxExp :
           /\ op' = "powmod"
           /\ arg' = <<aa, pp>>
           /\ LET cxx == convert(aa)
                  cyy == convert(1)
                  over == cxx.over \/ cyy.over
              IN /\ ovf' = over
                 /\ IF over /\ checks
                    THEN pc' = "panic" /\ UNCHANGED powVars
                    ELSE pc' = "loop" /\ p' = pp /\ x' = cxx.r /\ y' = cyy.r
           /\ UNCHANGED <<variant, checks, ctxVars, calcVars, loc, ret>>

\* one iteration of powmod's loop, p > 0
PowStep ==
    /\ pc = "loop" /\ p > 0
    /\ LET ux   == x
           odd  == BitAnd(p, 1) # 0
           ry   == reduction(ux * y)
           rx   == reduction(ux * ux)
           over == (odd /\ ry.over) \/ rx.over
       IN /\ ovf' = (ovf \/ over)
          /\ IF over /\ checks
             THEN pc' = "panic" /\ UNCHANGED powVars
             ELSE /\ y' = IF odd THEN ry.r ELSE y
                  /\ x' = rx.r
                  /\ p' = Shr(p, 1)
                  /\ pc' = pc
    /\ UNCHANGED <<variant, checks, ctxVars, calcVars, op, arg, loc, ret>>

\* mutant of PowFinish: y is returned in Montgomery form, without the final
\* reduction
PowFinish_NoReduction ==
    /\ pc = "loop" /\ p = 0
    /\ pc' = "done" /\ ret' = y
    /\ UNCHANGED <<variant, checks, ctxVars, calcVars, powVars, op, arg, loc, ovf>>

\* the loop has ended, p = 0: powmod returns reduction(y)
PowFinish ==
    /\ pc = "loop" /\ p = 0
    /\ LET r == reduction(y)
       IN /\ ovf' = (ovf \/ r.over)
          /\ IF r.over /\ checks
             THEN pc' = "panic" /\ ret' = ret
             ELSE pc' = "done" /\ ret' = r.r
    /\ UNCHANGED <<variant, checks, ctxVars, calcVars, powVars, op, arg, loc>>

\* the arbitrary-width engine: construction, then one reduction or convert
NextRedc ==
    \/ NewGeneric
    \/ CalcStep
    \/ ReductionCall
    \/ ConvertCall
    \/ RoundTrip

SpecRedc == Init /\ [][NextRedc]_vars

\* the arbitrary-width engine: construction, then one powmod
NextGeneric ==
    \/ NewGeneric
    \/ CalcStep
    \/ PowmodStart
    \/ PowStep
    \/ PowFinish

SpecGeneric == Init /\ [][NextGeneric]_vars

\* the fixed-width engines: construction, then one call
NextFixed ==
    \/ NewFixed
    \/ CalcStep
    \/ ConvertCall
    \/ PowmodStart
    \/ PowStep
    \/ PowFinish

SpecFixed == Init /\ [][NextFixed]_vars

\* ------------------------------------------------- lib.rs: the calls
LibDone(f, args, value) ==
    /\ variant' = "lib"
    /\ op' = f
    /\ arg' = args
    /\ ret' = value
    /\ pc' = "done"
    /\ UNCHANGED <<checks, ctxVars, calcVars, powVars, loc, ovf>>

\* add_mod(&a, &b, &m)
AddMod ==
    /\ pc = "idle"
    /\ \E m \in 1..MaxM : \E a \in (-m)..m : \E b \in (-m)..m :
           LibDone("add_mod", <<a, b, m>>, add_mod(a, b, m))

\* sub_mod(&a, &b, &m)
SubMod ==
    /\ pc = "idle"
    /\ \E m \in 1..MaxM : \E a \in (-m)..m : \E b \in (-m)..m :
           LibDone("sub_mod", <<a, b, m>>, sub_mod(a, b, m))

\* mul_mod(&a, &b, &m)
MulMod ==
    /\ pc = "idle"
    /\ \E m \in 1..MaxM : \E a \in (-m)..m : \E b \in (-m)..m :
           LibDone("mul_mod", <<a, b, m>>, mul_mod(a, b, m))

\* pow_mod(a, b, &m)
PowMod ==
    /\ pc = "idle"
    /\ \E m \in 1..MaxM : \E a \in (-m)..m : \E b \in 0..MaxM :
           LibDone("pow_mod", <<a, b, m>>, pow_mod(a, b, m))

\* mul_pow_mod(a, base, power, &m)
MulPowMod ==
    /\ pc = "idle"
    /\ \E m \in 1..MaxM : \E a \in (-m)..m : \E base \in (-m)..m :
       \E power \in 0..MaxM :
           LibDone("mul_pow_mod", <<a, base, power, m>>,
                   mul_pow_mod(a, base, power, m))

NextLib == AddMod \/ SubMod \/ MulMod \/ PowMod \/ MulPowMod

SpecLib == Init /\ [][NextLib]_vars

\* ------------------------------------------------ properties: lib.rs
\* C6: for m >= 1 and |a|, |b| <= m, add_mod(a,b,m) = a + b (mod m) and
\* sub_mod(a,b,m) = a - b (mod m), and the result lies in [-m, m]: the one
\* corrective step of reduce is enough
C6_AddSub ==
    /\ (op = "add_mod" /\ pc = "done") =>
          /\ (ret - (arg[1] + arg[2])) % arg[3] = 0
          /\ -arg[3] <= ret /\ ret <= arg[3]
    /\ (op = "sub_mod" /\ pc = "done") =>
          /\ (ret - (arg[1] - arg[2])) % arg[3] = 0
          /\ -arg[3] <= ret /\ ret <= arg[3]

\* C6 witness: sub_mod took the corrective step for a difference of -2m
C6_Witness ==
    op = "sub_mod" /\ pc = "done" /\ arg = <<-5, 5, 5>> /\ ret = -5

\* the call the Fermat test makes: pow_mod(a, m, &m), m prime, -m < a < m
FermatCall ==
    /\ op = "pow_mod" /\ pc = "done"
    /\ is_prime(arg[3]) /\ arg[2] = arg[3]
    /\ -arg[3] < arg[1] /\ arg[1] < arg[3]

C3_Redc ==
    (op = "reduction" /\ pc = "done") =>
        LET X == arg[1]
            R == Pow2(s)
        IN /\ 0 <= X /\ X < n * R
           /\ loc.t = ((X % R) * np) % R
           /\ loc.sum = X + n * loc.t
           /\ loc.sum % R = 0
           /\ loc.u * R = loc.sum
           /\ loc.u < 2 * n
           /\ ret = IF loc.u >= n THEN loc.u - n ELSE loc.u
           /\ 0 <= ret /\ ret < n
           /\ (ret * R - X) % n = 0

\* C3 witness: a reduction whose quotient U needed the subtraction
C3_Witness ==
    /\ op = "reduction" /\ pc = "done" /\ n = 71 /\ arg[1] > 71
    /\ loc.u >= n /\ ret = loc.u - n

\* C10: in the generic variant, for 0 <= x < N, convert(x) = x*R mod N, a
\* value in [0, N), and one reduction of it gives x back
C10_RoundTrip ==
    /\ (variant = Generic /\ op = "convert" /\ pc = "done") =>
          /\ ret = (arg[1] * Pow2(s)) % n
          /\ 0 <= ret /\ ret < n
    /\ (op = "convert_reduction" /\ pc = "done") => ret = arg[1]

\* C10 witness: a residue above 1 went through convert and reduction
C10_Witness ==
    op = "convert_reduction" /\ pc = "done" /\ n = 69 /\ arg[1] = 40 /\ ret = 40

\* ------------------------------------------------- properties: powmod
\* a^e mod m by e multiplications
RECURSIVE ModPow(_, _, _)
ModPow(a, e, m) == IF e = 0 THEN 1 % m ELSE (a * ModPow(a, e - 1, m)) % m

PowmodDone == op = "powmod" /\ pc = "done"

\* C1 as stated: on a fixed-width engine, for every odd N < R, a < N and
\* p >= 0, powmod completes, no x + n*t exceeds the double-width container,
\* and the result is a^p mod N
C1_Original ==
    (variant \in Fixed /\ op = "powmod") =>
        /\ pc # "panic"
        /\ ~ovf
        /\ pc = "done" => ret = ModPow(arg[1], arg[2], n)

\* C2, the result: on the generic engine powmod(a, p) returns a^p mod N, a
\* value in [0, N), for every odd N, 0 <= a < N and p >= 0 (1 mod N for p = 0)
C2_Result ==
    (variant = Generic /\ PowmodDone) =>
        /\ ret = ModPow(arg[1], arg[2], n)
        /\ 0 <= ret /\ ret < n
        /\ arg[2] = 0 => ret = 1 % n

\* C2, termination: inside the loop p is a natural number, so one of the
\* loop's two branches (p > 0: PowStep, p = 0: PowFinish) is always taken,
\* and each iteration strictly lowers p
C2_Progress == pc = "loop" => p >= 0

C2_Variant == (pc = "loop" /\ pc' = "loop") => (p' < p /\ p' >= 0)

\* C2: Montgomery::<T>::new(N).powmod(a, p) terminates and returns exactly
\* a^p mod N as an ordinary residue in [0, N): every step ends in a state
\* with the right result and keeps the loop's variant
C2_Powmod == [][C2_Result' /\ C2_Progress' /\ C2_Variant]_vars

\* C2 witness: a powmod with both a multiply and a skipped multiply
C2_Witness ==
    /\ variant = Generic /\ PowmodDone /\ n = 71
    /\ arg = <<3, 5>> /\ ret = 30

\* C7 as stated: the generic powmod(a, p) equals pow_mod(a, p, &N) for every
\* odd N >= 1, 0 <= a < N and p >= 0
C7_Original ==
    (variant = Generic /\ PowmodDone) => ret = pow_mod(arg[1], arg[2], n)

\* C7 amended: the two results are congruent mod N, and equal unless N = 1
\* and p = 0, where pow_mod returns 1 and the Montgomery path 0
C7_CrossCheck ==
    (variant = Generic /\ PowmodDone) =>
        /\ (ret - pow_mod(arg[1], arg[2], n)) % n = 0
        /\ (n > 1 \/ arg[2] > 0) => ret = pow_mod(arg[1], arg[2], n)
        /\ (n = 1 /\ arg[2] = 0) => (ret = 0 /\ pow_mod(arg[1], arg[2], n) = 1)

\* C7 witness: the two paths agree on a non-trivial power
C7_Witness ==
    /\ variant = Generic /\ PowmodDone /\ n = 57
    /\ arg = <<5, 3>> /\ ret = pow_mod(5, 3, 57) /\ ret = 11

\* ------------------------------------------------------ specification
Next ==
    \/ NewFixed \/ NewGeneric \/ CalcCall \/ CalcStep
    \/ ReductionCall \/ ConvertCall \/ RoundTrip
    \/ PowmodStart \/ PowStep \/ PowFinish
    \/ AddMod \/ SubMod \/ MulMod \/ PowMod \/ MulPowMod

Spec == Init /\ [][Next]_vars

====
